---- MODULE Spec2Model ----
(***************************************************************************)
(* Availability computation of src/backend/main.py: business hours,        *)
(* busy intervals from the iCal feed (clip, sort, merge) and the slot      *)
(* enumeration loop of generate_slots, behind the /api/availability route. *)
(*                                                                         *)
(* Instants are integer minutes counted from local midnight of the         *)
(* requested day.  The days of the model have no DST change, so the local  *)
(* zone keeps one UTC offset through the day.                              *)
(***************************************************************************)
EXTENDS Integers, Sequences, FiniteSets, TLC

VARIABLES
    env_url,        \* environment variable GOOGLE_CALENDAR_ICAL_URL
    env_tz,         \* environment variable BUSINESS_TZ
    pc,             \* position of the request
    date_str,       \* the date argument of the request
    slot_minutes,   \* the slot_minutes argument of the request
    hours,          \* result of get_business_hours (<<>> is None)
    win,            \* <<start, end>> of generate_slots
    outcome,        \* what fetch_busy_intervals_ical met
    fetches,        \* number of requests.get calls made
    busy,           \* busy, as returned by fetch_busy_intervals_ical
    cur,            \* loop cursor of generate_slots
    slots,          \* slots of generate_slots (isoformat values)
    iter,           \* iterations of the while loop taken so far
    response,       \* the AvailabilityResponse returned (<<>> before)
    mIn,            \* merge step alone: the clipped list before line 144
    mOut,           \* merge step alone: merged, after one application
    mOut2,          \* merge step alone: merged, applied to its own output
    mpc             \* merge step alone: position

vars == <<env_url, env_tz, pc, date_str, slot_minutes, hours, win, outcome,
          fetches, busy, cur, slots, iter, response, mIn, mOut, mOut2, mpc>>

reqVars == <<env_url, env_tz, pc, date_str, slot_minutes, hours, win, outcome,
             fetches, busy, cur, slots, iter, response>>

mergeVars == <<mIn, mOut, mOut2, mpc>>

-----------------------------------------------------------------------------
(* Bounds of the model *)

MaxEvents == 2      \* events in one feed
MaxIter == 38       \* loop iterations followed before the model stops
MaxLen == 3         \* length of the list given to the merge step alone
MaxInstant == 4     \* instants 0..MaxInstant for the merge step alone

-----------------------------------------------------------------------------
(* Environment *)

Unset == [set |-> FALSE, val |-> <<>>]

EnvVal(s) == [set |-> TRUE, val |-> s]

\* os.getenv(name, default)
getenv(v, default) == IF v.set THEN v.val ELSE default

IsSpace(c) == c = " "

\* str.strip()
RECURSIVE LStrip(_)
LStrip(s) == IF s # <<>> /\ IsSpace(Head(s)) THEN LStrip(Tail(s)) ELSE s

RECURSIVE RStrip(_)
RStrip(s) ==
    IF s # <<>> /\ IsSpace(s[Len(s)]) THEN RStrip(SubSeq(s, 1, Len(s) - 1)) ELSE s

strip(s) == RStrip(LStrip(s))

\* bool(os.getenv("GOOGLE_CALENDAR_ICAL_URL"))
configured_flag(v) == v.set /\ v.val # <<>>

UrlChoices ==
    { Unset, EnvVal(<<>>), EnvVal(<<" ">>), EnvVal(<<"u">>), EnvVal(<<" ", "u">>) }

DefaultTz == "Europe/Amsterdam"

TzChoices == { Unset, EnvVal("Mars/Phobos") }

\* pytz.timezone(tz_name) raises UnknownTimeZoneError for a name it has not
KnownZones == { "Europe/Amsterdam" }

\* UTC offset, in minutes, of Europe/Amsterdam on the days of the model (CET)
TzOffset == 60

-----------------------------------------------------------------------------
(* Dates *)

Date(y, m, d) == [y |-> y, m |-> m, d |-> d]

\* the route's pattern ^\d{4}-\d{2}-\d{2}$ on a date written y-m-d
MatchesPattern(dt) == dt.y \in 0..9999 /\ dt.m \in 0..99 /\ dt.d \in 0..99

IsLeap(y) == y % 4 = 0 /\ (y % 100 # 0 \/ y % 400 = 0)

DaysInMonth(y, m) ==
    IF m = 2 THEN (IF IsLeap(y) THEN 29 ELSE 28)
    ELSE IF m \in {4, 6, 9, 11} THEN 30 ELSE 31

\* datetime.strptime(date_str, "%Y-%m-%d") returns (FALSE is ValueError)
strptime_ok(dt) ==
    /\ dt.y \in 1..9999
    /\ dt.m \in 1..12
    /\ dt.d \in 1..DaysInMonth(dt.y, dt.m)

RECURSIVE DaysBeforeMonth(_, _)
DaysBeforeMonth(y, m) ==
    IF m = 1 THEN 0 ELSE DaysBeforeMonth(y, m - 1) + DaysInMonth(y, m - 1)

\* date.toordinal()
toordinal(dt) ==
    LET y == dt.y - 1
    IN  y * 365 + (y \div 4) - (y \div 100) + (y \div 400)
        + DaysBeforeMonth(dt.y, dt.m) + dt.d

\* datetime.weekday(): Monday = 0 ... Sunday = 6
weekday(dt) == (toordinal(dt) + 6) % 7

DateChoices ==
    { Date(2024, 1, 3),     \* Wednesday
      Date(2024, 1, 6),     \* Saturday
      Date(2024, 1, 7),     \* Sunday
      Date(2024, 2, 29),    \* Thursday, leap day
      Date(2024, 13, 1),    \* month 13
      Date(2024, 2, 30),    \* day 30 of February
      Date(0, 1, 1),        \* year 0000
      Date(20240, 1, 3) }   \* five-digit year: no match of the pattern

SlotChoices == { -30, 0, 15, 30, 45, 600 }

-----------------------------------------------------------------------------
(* Business hours *)

None == <<>>

time(h, m) == h * 60 + m

get_business_hours_sunday_open(wd) ==
    IF wd \in {0, 1, 2, 3, 4} THEN <<time(9, 0), time(18, 0)>>
    ELSE <<time(10, 0), time(14, 0)>>

get_business_hours(wd) ==
    IF wd \in {0, 1, 2, 3, 4} THEN <<time(9, 0), time(18, 0)>>
    ELSE IF wd = 5 THEN <<time(10, 0), time(14, 0)>>
    ELSE None

-----------------------------------------------------------------------------
(* Busy intervals: fetch_busy_intervals_ical *)

Max(a, b) == IF a >= b THEN a ELSE b

Min(a, b) == IF a <= b THEN a ELSE b

\* one event of the feed: begin and end in minutes from midnight of the
\* requested day on the event's own clock; aware events carry utcoff
Event(b, e, has_end, aware, utcoff, broken) ==
    [begin |-> b, end |-> e, has_end |-> has_end, aware |-> aware,
     utcoff |-> utcoff, broken |-> broken]

Naive(b, e) == Event(b, e, TRUE, FALSE, 0, FALSE)

EventChoices ==
    { Naive(540, 600),                          \* 09:00-10:00
      Naive(570, 630),                          \* 09:30-10:30
      Naive(600, 660),                          \* 10:00-11:00
      Naive(615, 620),                          \* inside one slot
      Naive(1070, 1075),                        \* in the last weekday slot
      Naive(-120, 30),                          \* starts the day before
      Naive(1380, 1500),                        \* ends the day after
      Naive(1500, 1560),                        \* the day after
      Naive(700, 700),                          \* empty
      Naive(900, 800),                          \* end before begin
      Event(600, 0, FALSE, FALSE, 0, FALSE),    \* no end: 30 minutes
      Event(780, 800, TRUE, TRUE, 0, FALSE),    \* 13:00-13:20 UTC
      Event(0, 0, FALSE, FALSE, 0, TRUE) }      \* begin cannot be read

TransportChoices ==
    { "ok", "connection_error", "timeout", "http_error", "parse_error" }

\* requests.get / raise_for_status / Calendar(resp.text) raise
RequestFails_no_status_check(transport) ==
    transport \in { "connection_error", "timeout", "parse_error" }

RequestFails(transport) ==
    transport \in { "connection_error", "timeout", "http_error", "parse_error" }

\* tz.localize for a naive value, astimezone(tz) for an aware one
normalize(t, ev) == IF ~ev.aware THEN t ELSE t - ev.utcoff + TzOffset

start_of_day == 0

end_of_day == start_of_day + 24 * 60

ev_start(ev) == normalize(ev.begin, ev)

ev_end(ev) == normalize(IF ev.has_end THEN ev.end ELSE ev.begin + 30, ev)

\* the for loop over cal.events: the clipped intervals, in feed order
RECURSIVE ClipEvents(_)
ClipEvents(events) ==
    IF events = <<>> THEN <<>>
    ELSE LET ev == Head(events)
             latest_start == Max(ev_start(ev), start_of_day)
             earliest_end == Min(ev_end(ev), end_of_day)
         IN  IF ev.broken THEN ClipEvents(Tail(events))
             ELSE IF latest_start < earliest_end
                  THEN <<<<latest_start, earliest_end>>>> \o ClipEvents(Tail(events))
                  ELSE ClipEvents(Tail(events))

\* insertion keeping the order of equal keys (list.sort is stable)
RECURSIVE InsertByStart(_, _)
InsertByStart(sorted, iv) ==
    IF sorted = <<>> THEN <<iv>>
    ELSE IF iv[1] < Head(sorted)[1] THEN <<iv>> \o sorted
         ELSE <<Head(sorted)>> \o InsertByStart(Tail(sorted), iv)

\* busy.sort(key=lambda x: x[0])
RECURSIVE SortByStart(_)
SortByStart(list) ==
    IF list = <<>> THEN <<>>
    ELSE InsertByStart(SortByStart(SubSeq(list, 1, Len(list) - 1)), list[Len(list)])

ReplaceLast(merged, iv) == SubSeq(merged, 1, Len(merged) - 1) \o <<iv>>

Last(merged) == merged[Len(merged)]

MergeOne_touching_kept(merged, iv) ==
    IF merged = <<>> \/ iv[1] >= Last(merged)[2]
    THEN Append(merged, iv)
    ELSE ReplaceLast(merged, <<Last(merged)[1], Max(Last(merged)[2], iv[2])>>)

MergeOne_updates_first(merged, iv) ==
    IF merged = <<>> \/ iv[1] > Last(merged)[2]
    THEN Append(merged, iv)
    ELSE <<<<merged[1][1], Max(merged[1][2], iv[2])>>>> \o Tail(merged)

MergeOne_no_max(merged, iv) ==
    IF merged = <<>> \/ iv[1] > Last(merged)[2]
    THEN Append(merged, iv)
    ELSE ReplaceLast(merged, <<Last(merged)[1], iv[2]>>)

\* the body of "for s, e in busy"
MergeOne(merged, iv) ==
    IF merged = <<>> \/ iv[1] > Last(merged)[2]
    THEN Append(merged, iv)
    ELSE ReplaceLast(merged, <<Last(merged)[1], Max(Last(merged)[2], iv[2])>>)

RECURSIVE MergeLoop(_, _)
MergeLoop(merged, rest) ==
    IF rest = <<>> THEN merged
    ELSE MergeLoop(MergeOne(merged, Head(rest)), Tail(rest))

\* the merge step: sort, then merge
MergeStep(list) == MergeLoop(<<>>, SortByStart(list))

\* what the call met, by the first return it takes
FetchOutcome(url, lib, transport) ==
    IF strip(getenv(url, <<>>)) = <<>> THEN "no_url"
    ELSE IF ~lib THEN "no_library"
    ELSE transport

\* requests.get calls made by one call of fetch_busy_intervals_ical
FetchCalls(url, lib) ==
    IF strip(getenv(url, <<>>)) = <<>> \/ ~lib THEN 0 ELSE 1

fetch_busy_intervals_ical(url, lib, transport, events) ==
    IF strip(getenv(url, <<>>)) = <<>> THEN <<>>
    ELSE IF ~lib THEN <<>>
    ELSE IF RequestFails(transport) THEN <<>>
    ELSE MergeStep(ClipEvents(events))

RECURSIVE SeqsUpTo(_, _)
SeqsUpTo(S, n) ==
    IF n = 0 THEN { <<>> }
    ELSE LET shorter == SeqsUpTo(S, n - 1)
         IN  shorter \cup { Append(q, x) : q \in shorter, x \in S }

Feeds == SeqsUpTo(EventChoices, MaxEvents)

-----------------------------------------------------------------------------
(* Slot enumeration: generate_slots *)

\* os.getenv("BUSINESS_TZ", "Europe/Amsterdam")
tz_name(v) == getenv(v, DefaultTz)

\* pytz.timezone(tz_name) returns (FALSE is UnknownTimeZoneError)
timezone_ok(name) == name \in KnownZones

\* datetime.isoformat() of an aware local instant; day counts from the
\* requested date
isoformat(t) ==
    [day |-> t \div 1440, hour |-> (t % 1440) \div 60, minute |-> t % 60,
     utcoffset |-> TzOffset]

timedelta(minutes) == minutes

is_free_start_only(b, s, e) ==
    \A j \in 1..Len(b) : ~(s < b[j][1] /\ e > b[j][1])

\* is_free(s, e) over the busy list b
is_free(b, s, e) ==
    \A j \in 1..Len(b) : ~(s < b[j][2] /\ e > b[j][1])

LoopCond_strict(c, delta, end) == c + delta < end

\* while cur + delta <= end
LoopCond(c, delta, end) == c + delta <= end

AvailabilityResponse(d, tzn, sm, sl, conf) ==
    [date |-> d, timezone |-> tzn, slot_minutes |-> sm, slots |-> sl,
     configured |-> conf]

-----------------------------------------------------------------------------
(* The request *)

Init ==
    /\ env_url \in UrlChoices
    /\ env_tz \in TzChoices
    /\ pc = "idle"
    /\ date_str = Date(0, 0, 0)
    /\ slot_minutes = 30
    /\ hours = None
    /\ win = <<>>
    /\ outcome = "not_attempted"
    /\ fetches = 0
    /\ busy = <<>>
    /\ cur = 0
    /\ slots = <<>>
    /\ iter = 0
    /\ response = <<>>
    /\ mIn = <<>>
    /\ mOut = <<>>
    /\ mOut2 = <<>>
    /\ mpc = "off"

\* the route refuses a date that does not match its pattern (422)
AvailabilityRejects(d, sm) ==
    /\ pc = "idle"
    /\ ~MatchesPattern(d)
    /\ pc' = "rejected"
    /\ date_str' = d
    /\ slot_minutes' = sm
    /\ UNCHANGED <<env_url, env_tz, hours, win, outcome, fetches, busy, cur,
                   slots, iter, response, mergeVars>>

\* availability() calls generate_slots(date, slot_minutes)
AvailabilityCalls(d, sm) ==
    /\ pc = "idle"
    /\ MatchesPattern(d)
    /\ pc' = "generate_slots"
    /\ date_str' = d
    /\ slot_minutes' = sm
    /\ UNCHANGED <<env_url, env_tz, hours, win, outcome, fetches, busy, cur,
                   slots, iter, response, mergeVars>>

\* pytz.timezone or datetime.strptime raises; nothing catches it
GenerateSlotsRaises ==
    /\ pc = "generate_slots"
    /\ ~timezone_ok(tz_name(env_tz)) \/ ~strptime_ok(date_str)
    /\ pc' = "raised"
    /\ UNCHANGED <<env_url, env_tz, date_str, slot_minutes, hours, win, outcome,
                   fetches, busy, cur, slots, iter, response, mergeVars>>

\* hours is None: the early return
GenerateSlotsClosed ==
    /\ pc = "generate_slots"
    /\ timezone_ok(tz_name(env_tz))
    /\ strptime_ok(date_str)
    /\ get_business_hours(weekday(date_str)) = None
    /\ hours' = None
    /\ response' = AvailabilityResponse(date_str, tz_name(env_tz), slot_minutes,
                                        <<>>, configured_flag(env_url))
    /\ pc' = "done"
    /\ UNCHANGED <<env_url, env_tz, date_str, slot_minutes, win, outcome,
                   fetches, busy, cur, slots, iter, mergeVars>>

\* fetch_busy_intervals_ical returns before it reads any event
FetchReturnsEarly(url, lib, transport) ==
    \/ strip(getenv(url, <<>>)) = <<>>
    \/ ~lib
    \/ RequestFails(transport)

\* the day is open: window, busy intervals, loop set up
GenerateSlotsEnter(lib, transport, events) ==
    /\ hours' = get_business_hours(weekday(date_str))
    /\ win' = hours'
    /\ busy' = fetch_busy_intervals_ical(env_url, lib, transport, events)
    /\ outcome' = FetchOutcome(env_url, lib, transport)
    /\ fetches' = fetches + FetchCalls(env_url, lib)
    /\ cur' = hours'[1]
    /\ slots' = <<>>
    /\ iter' = 0
    /\ pc' = "loop"
    /\ UNCHANGED <<env_url, env_tz, date_str, slot_minutes, response, mergeVars>>

\* the day is open and the fetch returns early: no URL, no library, or
\* the request or the parse of the payload raises
GenerateSlotsOpenNoFeed(lib, transport) ==
    /\ pc = "generate_slots"
    /\ timezone_ok(tz_name(env_tz))
    /\ strptime_ok(date_str)
    /\ get_business_hours(weekday(date_str)) # None
    /\ FetchReturnsEarly(env_url, lib, transport)
    /\ GenerateSlotsEnter(lib, transport, <<>>)

\* the day is open and the feed is read: its events are clipped and merged
GenerateSlotsOpenFeed(lib, transport) ==
    /\ pc = "generate_slots"
    /\ timezone_ok(tz_name(env_tz))
    /\ strptime_ok(date_str)
    /\ get_business_hours(weekday(date_str)) # None
    /\ ~FetchReturnsEarly(env_url, lib, transport)
    /\ \E events \in Feeds : GenerateSlotsEnter(lib, transport, events)

\* one iteration of the while loop
LoopBody ==
    /\ pc = "loop"
    /\ iter < MaxIter
    /\ LoopCond(cur, timedelta(slot_minutes), win[2])
    /\ slots' = IF is_free(busy, cur, cur + timedelta(slot_minutes))
                THEN Append(slots, isoformat(cur))
                ELSE slots
    /\ cur' = cur + timedelta(slot_minutes)
    /\ iter' = iter + 1
    /\ UNCHANGED <<env_url, env_tz, pc, date_str, slot_minutes, hours, win,
                   outcome, fetches, busy, response, mergeVars>>

\* the loop condition fails: the response is returned
LoopExit ==
    /\ pc = "loop"
    /\ ~LoopCond(cur, timedelta(slot_minutes), win[2])
    /\ response' = AvailabilityResponse(date_str, tz_name(env_tz), slot_minutes,
                                        slots, configured_flag(env_url))
    /\ pc' = "done"
    /\ UNCHANGED <<env_url, env_tz, date_str, slot_minutes, hours, win, outcome,
                   fetches, busy, cur, slots, iter, mergeVars>>

Next ==
    \/ \E d \in DateChoices, sm \in SlotChoices : AvailabilityRejects(d, sm)
    \/ \E d \in DateChoices, sm \in SlotChoices : AvailabilityCalls(d, sm)
    \/ GenerateSlotsRaises
    \/ GenerateSlotsClosed
    \/ \E lib \in BOOLEAN, transport \in TransportChoices :
           GenerateSlotsOpenNoFeed(lib, transport)
    \/ \E lib \in BOOLEAN, transport \in TransportChoices :
           GenerateSlotsOpenFeed(lib, transport)
    \/ LoopBody
    \/ LoopExit

Spec == Init /\ [][Next]_vars

-----------------------------------------------------------------------------
(* The merge step on its own *)

MergeIntervals ==
    { iv \in (0..MaxInstant) \X (0..MaxInstant) : iv[1] < iv[2] }

InitMerge ==
    /\ env_url = Unset
    /\ env_tz = Unset
    /\ pc = "idle"
    /\ date_str = Date(0, 0, 0)
    /\ slot_minutes = 30
    /\ hours = None
    /\ win = <<>>
    /\ outcome = "not_attempted"
    /\ fetches = 0
    /\ busy = <<>>
    /\ cur = 0
    /\ slots = <<>>
    /\ iter = 0
    /\ response = <<>>
    /\ mIn \in SeqsUpTo(MergeIntervals, MaxLen)
    /\ mOut = <<>>
    /\ mOut2 = <<>>
    /\ mpc = "input"

\* lines 144-150 applied to the clipped list
ApplyMerge ==
    /\ mpc = "input"
    /\ mOut' = MergeStep(mIn)
    /\ mpc' = "merged"
    /\ UNCHANGED <<reqVars, mIn, mOut2>>

\* lines 144-150 applied to their own output
ApplyMergeAgain ==
    /\ mpc = "merged"
    /\ mOut2' = MergeStep(mOut)
    /\ mpc' = "again"
    /\ UNCHANGED <<reqVars, mIn, mOut>>

NextMerge == ApplyMerge \/ ApplyMergeAgain

SpecMerge == InitMerge /\ [][NextMerge]_vars

-----------------------------------------------------------------------------
(* Properties *)

\* the instant an isoformat value of the response denotes
SlotInstant(r) == r.day * 1440 + r.hour * 60 + r.minute

\* the slots emitted so far, and after the return the slots of the response
Emitted == IF pc = "done" THEN response.slots ELSE slots

\* the opening hours as the specification's table gives them
TableWindow(wd) == IF wd \in 0..4 THEN <<540, 1080>> ELSE <<600, 840>>

Overlaps(s, e, b) == s < b[2] /\ e > b[1]

Blank(v) == strip(getenv(v, <<>>)) = <<>>

FailureOutcomes ==
    { "no_url", "no_library", "connection_error", "timeout", "http_error",
      "parse_error" }

\* C1: with a positive slot_minutes, no emitted slot [s, s + slot_minutes)
\* overlaps an interval of the busy list the fetch returned.
C1_NoSlotOverlapsBusy ==
    (pc \in {"loop", "done"} /\ slot_minutes > 0) =>
        \A i \in 1..Len(Emitted), j \in 1..Len(busy) :
            ~(/\ SlotInstant(Emitted[i]) < busy[j][2]
              /\ SlotInstant(Emitted[i]) + slot_minutes > busy[j][1])

C1_Witness ==
    /\ pc = "done"
    /\ slot_minutes > 0
    /\ Len(busy) = 2
    /\ response.slots # <<>>
    /\ Len(response.slots) < (win[2] - win[1]) \div slot_minutes

\* C2: the merge step returns a list sorted ascending by start, whose
\* adjacent intervals neither overlap nor touch, each with start < end.
C2_MergeSortedDisjoint ==
    mpc \in {"merged", "again"} =>
        /\ \A i \in 1..Len(mOut) : mOut[i][1] < mOut[i][2]
        /\ \A i \in 1..(Len(mOut) - 1) :
               /\ mOut[i][1] <= mOut[i + 1][1]
               /\ mOut[i][2] < mOut[i + 1][1]

C2_Witness ==
    /\ mpc = "merged"
    /\ Len(mIn) = 3
    /\ Len(mOut) = 2
    /\ \E i, j \in 1..Len(mIn) : mIn[i][2] = mIn[j][1]

\* C3: the configured flag of the response is false exactly when the feed
\* URL is absent or blank, the condition under which the fetch returns
\* the empty list without fetching.
C3_ConfiguredIffUrlNotBlank ==
    pc = "done" => (response.configured <=> ~Blank(env_url))

\* C4: no exception escapes generate_slots for a date that passed the
\* route's pattern.
C4_NoExceptionEscapes ==
    MatchesPattern(date_str) => pc # "raised"

\* C5: on a Sunday the response has no slots and no retrieval of the
\* feed is attempted, whatever the configuration.
C5_ClosedDayNoFetch ==
    (pc \in {"loop", "done"} /\ weekday(date_str) = 6) =>
        /\ pc = "done"
        /\ response.slots = <<>>
        /\ fetches = 0
        /\ outcome = "not_attempted"

C5_Witness ==
    /\ pc = "done"
    /\ weekday(date_str) = 6
    /\ ~Blank(env_url)
    /\ response.configured

\* C6: on an open day with a positive slot_minutes L the returned slots
\* are exactly, in ascending order, the instants open + k*L with
\* open + (k+1)*L <= close whose candidate overlaps no busy interval;
\* with no busy interval there are (close - open) \div L of them, 18 on a
\* weekday at L = 30, and a Saturday with 10:00-11:00 busy at L = 30
\* gives 11:00 ... 13:30.
C6_SlotsExact ==
    (pc = "done" /\ slot_minutes > 0 /\ weekday(date_str) \in 0..5) =>
        LET open == TableWindow(weekday(date_str))[1]
            close == TableWindow(weekday(date_str))[2]
            L == slot_minutes
            sl == response.slots
            Free == { k \in 0..((close - open) \div L) :
                        /\ open + (k + 1) * L <= close
                        /\ \A j \in 1..Len(busy) :
                               ~Overlaps(open + k * L, open + (k + 1) * L, busy[j]) }
        IN  /\ \A i \in 1..(Len(sl) - 1) :
                   SlotInstant(sl[i]) < SlotInstant(sl[i + 1])
            /\ { SlotInstant(sl[i]) : i \in 1..Len(sl) }
                   = { open + k * L : k \in Free }
            /\ busy = <<>> => Len(sl) = (close - open) \div L
            /\ (busy = <<>> /\ L = 30 /\ weekday(date_str) \in 0..4)
                   => Len(sl) = 18
            /\ (busy = << <<600, 660>> >> /\ L = 30 /\ weekday(date_str) = 5)
                   => /\ Len(sl) = 6
                      /\ \A i \in 1..6 : SlotInstant(sl[i]) = 660 + (i - 1) * 30

C6_Witness ==
    /\ pc = "done"
    /\ slot_minutes = 30
    /\ weekday(date_str) \in 0..4
    /\ busy = << <<540, 600>> >>
    /\ Len(response.slots) = 16
    /\ SlotInstant(response.slots[1]) = 600
    /\ SlotInstant(response.slots[16]) = 1050

\* C7: a failed fetch (no URL, no library, transport error, timeout,
\* HTTP error status, unparseable payload) gives the empty busy list and
\* raises nothing; the response then holds every slot of the window, and
\* configured is true when a non-blank URL is set.
C7_FetchFailureDegrades ==
    (pc \in {"loop", "done", "raised"} /\ outcome \in FailureOutcomes) =>
        /\ pc # "raised"
        /\ busy = <<>>
        /\ pc = "done" =>
               LET open == TableWindow(weekday(date_str))[1]
                   close == TableWindow(weekday(date_str))[2]
                   sl == response.slots
               IN  /\ Len(sl) = (close - open) \div slot_minutes
                   /\ \A i \in 1..Len(sl) :
                          SlotInstant(sl[i]) = open + (i - 1) * slot_minutes
                   /\ ~Blank(env_url) => response.configured

C7_Witness ==
    /\ pc = "done"
    /\ outcome = "http_error"
    /\ response.configured
    /\ Len(response.slots) = 18

\* C8: the merge step applied to its own output returns that output.
C8_MergeIdempotent ==
    mpc = "again" => mOut2 = mOut

C8_Witness ==
    /\ mpc = "again"
    /\ Len(mIn) = 3
    /\ Len(mOut) = 2
    /\ mOut2 = mOut

\* C9: an instant lies in a merged interval [s, e) exactly when it lies
\* in an interval of the input list, whatever the input order.
C9_MergePreservesCoverage ==
    mpc \in {"merged", "again"} =>
        \A t \in 0..(MaxInstant + 1) :
            (\E i \in 1..Len(mOut) : mOut[i][1] <= t /\ t < mOut[i][2])
                <=> (\E i \in 1..Len(mIn) : mIn[i][1] <= t /\ t < mIn[i][2])

C9_Witness ==
    /\ mpc = "merged"
    /\ Len(mIn) = 3
    /\ mIn[1][1] > mIn[2][1]
    /\ mIn[2][1] = mIn[3][1]
    /\ mIn[2][2] > mIn[3][2]
    /\ Len(mOut) = 1

\* C10: a slot_minutes that is not positive never reaches the loop
\* "while cur + delta <= end".
C10_NonPositiveNeverLoops ==
    pc = "loop" => slot_minutes > 0

====
